---- MODULE Spec2Model ----
(***************************************************************************)
(* State-machine model of the VITON-HD Flask service                      *)
(* (src/viton_service/app.py): the process-wide model instance,           *)
(* load_model, preprocess_image and the three HTTP handlers.  Each        *)
(* request is handled by a worker; a worker's position in its handler is  *)
(* pc[t].  Two specifications share the actions: Spec serves one request  *)
(* at a time, SpecConc lets the workers interleave statement by           *)
(* statement (the development server is threaded).                        *)
(***************************************************************************)
EXTENDS Integers, Sequences, FiniteSets

\* ---------------------------------------------------------------- bounds
NThreads == 2
Scale == 2

\* ------------------------------------------------------ program constants
TARGET_W == 1024
TARGET_H == 768
PIXEL_MAX == 255

None == 0
Main == 0
Workers == 1 .. NThreads
Procs == {Main} \cup Workers

NoTensor == << >>
NoOutput == [shape |-> NoTensor, val |-> 0]
NoImage == [size |-> << >>, pixel |-> 0]

\* uploaded images: decodable or not, any mode, any original size
ImageModes == {"RGB", "RGBA", "L"}
ImageSizes == {<<1024, 768>>, <<768, 1024>>, <<640, 480>>, <<1, 1>>}
Uploads == [ok : BOOLEAN, mode : ImageModes, size : ImageSizes]

\* a sample element of the network's output, in units of 1/Scale
OutVals == (0 - 2 * Scale) .. (2 * Scale)
\* channel counts the opaque network may answer with
OutChannels == {3, 2}

FileSets == SUBSET {"person_image", "clothing_image"}

\* str(e) of the exceptions a request can end with
CheckpointNotFound == "Model checkpoint not found"
NoSuchFile == "No such file or directory"
GeneratorUndefined == "name 'Generator' is not defined"
LoadFailed == "load failed"
PreprocessFailed == "Error preprocessing image"
ModelFailed == "model failed"
CannotHandleDataType == "Cannot handle this data type"
ListingFailed == "listing failed"

VARIABLES
  model,          \* the global `model`: None or the id of a Generator instance
  constructed,    \* number of Generator instances constructed so far
  weights,        \* instances whose load_state_dict has completed
  evalMode,       \* instances on which eval() has been called
  loadsCompleted, \* number of load_model calls that ran lines 61-65 to the end
  raced,          \* two callers were inside the `model is None` branch at once
  checkpoint,     \* os.path.exists(checkpoint_path)
  imported,       \* `from networks import Generator` succeeded
  pc,             \* position of each process
  kind,           \* which route a worker is serving
  files,          \* request.files of the request a worker is serving
  status,         \* HTTP status of the response (0: none yet)
  body,           \* payload shape of the response
  err,            \* class of the exception the handler caught
  responses,      \* responses produced for the current request
  loadCalls,      \* load_model calls made by the current request
  preCalls,       \* preprocess_image calls per field made by the current request
  inferCalls,     \* model(...) calls made by the current request
  usedModel,      \* the instance the current request invoked
  usedUnloaded,   \* that instance had no weights when it was invoked
  person_image,   \* shape of the preprocessed person tensor
  clothing_image, \* shape of the preprocessed clothing tensor
  output,         \* shape and a sample value of the network's output
  result_image    \* size and the matching sample pixel of the PNG

globals == <<model, constructed, weights, evalMode, loadsCompleted, raced,
             checkpoint, imported>>
request == <<kind, files>>
response == <<status, body, err, responses>>
counters == <<loadCalls, preCalls, inferCalls, usedModel, usedUnloaded>>
tensors == <<person_image, clothing_image, output, result_image>>
vars == <<globals, pc, request, response, counters, tensors>>

\* ------------------------------------------------------- pure functions

\* Image.convert('RGB') (line 80): three bands whatever the source mode
convert_RGB(img) == [img EXCEPT !.mode = "RGB"]

Bands(mode) == CASE mode = "RGB" -> 3 [] mode = "RGBA" -> 4 [] OTHER -> 1

\* variant: the target size given as (height, width)
resize_swapped(img) == [img EXCEPT !.size = <<TARGET_H, TARGET_W>>]

\* Image.resize((1024, 768)) (line 83): PIL sizes are (width, height)
resize(img) == [img EXCEPT !.size = <<TARGET_W, TARGET_H>>]

\* np.array(img) (line 86): rows first, shape (height, width, bands)
np_array(img) == <<img.size[2], img.size[1], Bands(img.mode)>>

\* tensor.permute(order) (lines 89, 154): 0-based axis order
permute(shape, order) == [i \in 1 .. Len(order) |-> shape[order[i] + 1]]

\* tensor.unsqueeze(0) (line 96)
unsqueeze0(shape) == <<1>> \o shape

\* preprocess_image (lines 80-96), shape of the tensor it returns
preprocess_image(img) ==
  unsqueeze0(permute(np_array(resize(convert_RGB(img))), <<2, 0, 1>>))

\* model(person_image, clothing_image) (line 149): an opaque network that
\* keeps the spatial size of its first input and answers c channels
forward(person, clothing, c) == <<person[1], c, person[3], person[4]>>

\* (output_np * 0.5 + 0.5) * 255 (line 155) as the numerator of a fraction
\* over 2 * Scale, for a value v / Scale
denormalize(v) == PIXEL_MAX * (v + Scale)

\* np.clip(output_np, 0, 255) (line 156), on numerators over 2 * Scale
clip(n) == IF n < 0 THEN 0
           ELSE IF n > PIXEL_MAX * 2 * Scale THEN PIXEL_MAX * 2 * Scale
           ELSE n

\* .astype(np.uint8) (line 156): truncation, 8 bits wide
astype_uint8(n) == (n \div (2 * Scale)) % 256

\* Image.fromarray (line 159) accepts (h, w, 3) arrays of uint8 here
fromarray_ok(shape) == Len(shape) = 3 /\ shape[3] \in {3, 4}
fromarray_size(shape) == <<shape[2], shape[1]>>

\* `'model_loaded': model is not None` (line 107)
model_loaded == model # None

\* ------------------------------------------------------------- helpers

\* the locals of a worker that is not serving a request
ResetLocals(t) ==
  /\ kind' = [kind EXCEPT ![t] = "none"]
  /\ files' = [files EXCEPT ![t] = {}]
  /\ status' = [status EXCEPT ![t] = 0]
  /\ body' = [body EXCEPT ![t] = "none"]
  /\ err' = [err EXCEPT ![t] = "none"]
  /\ responses' = [responses EXCEPT ![t] = 0]
  /\ loadCalls' = [loadCalls EXCEPT ![t] = 0]
  /\ preCalls' = [preCalls EXCEPT ![t] = [person |-> 0, clothing |-> 0]]
  /\ inferCalls' = [inferCalls EXCEPT ![t] = 0]
  /\ usedModel' = [usedModel EXCEPT ![t] = None]
  /\ usedUnloaded' = [usedUnloaded EXCEPT ![t] = FALSE]
  /\ person_image' = [person_image EXCEPT ![t] = NoTensor]
  /\ clothing_image' = [clothing_image EXCEPT ![t] = NoTensor]
  /\ output' = [output EXCEPT ![t] = NoOutput]
  /\ result_image' = [result_image EXCEPT ![t] = NoImage]

\* `return jsonify(...), st`: the handler ends with one response
Respond(t, st, b, e) ==
  /\ pc' = [pc EXCEPT ![t] = "done"]
  /\ status' = [status EXCEPT ![t] = st]
  /\ body' = [body EXCEPT ![t] = b]
  /\ err' = [err EXCEPT ![t] = e]
  /\ responses' = [responses EXCEPT ![t] = @ + 1]

\* variant: the handler catches ValueError only; anything else leaves the
\* handler and the framework answers with its own error page
except_handler_narrow(t, e) ==
  IF e = PreprocessFailed
    THEN Respond(t, 500, "error", e)
    ELSE Respond(t, 500, "unhandled", e)

\* generate_tryon's `except Exception as e` (lines 172-179)
except_handler(t, e) == Respond(t, 500, "error", e)

\* variant: the except clause clears the global before re-raising
load_model_except_reset(t, e) ==
  /\ model' = None
  /\ UNCHANGED <<constructed, weights, evalMode, loadsCompleted, raced,
                 checkpoint, imported>>
  /\ IF t = Main
       THEN pc' = [pc EXCEPT ![t] = "serving"] /\ UNCHANGED response
       ELSE except_handler(t, e)

\* load_model's `except Exception: print; raise` (lines 69-71), and where the
\* exception lands: swallowed by the startup block (lines 200-202), or caught
\* by generate_tryon's handler
load_model_except(t, e) ==
  /\ UNCHANGED globals
  /\ IF t = Main
       THEN pc' = [pc EXCEPT ![t] = "serving"] /\ UNCHANGED response
       ELSE except_handler(t, e)

\* `return model` (line 68), back in the caller
load_model_return(t) ==
  /\ pc' = [pc EXCEPT ![t] = IF t = Main THEN "serving" ELSE "validate"]
  /\ UNCHANGED response

\* ----------------------------------------------------------- load_model

\* variant: no `model is None` test, the body always runs
load_model_check_always(t) ==
  /\ pc[t] = "load_check"
  /\ pc' = [pc EXCEPT ![t] = "load_exists"]
  /\ raced' = (raced \/ \E u \in Procs \ {t} :
                          pc[u] \in {"load_exists", "load_construct"})
  /\ UNCHANGED <<model, constructed, weights, evalMode, loadsCompleted,
                 checkpoint, imported, response>>
  /\ UNCHANGED <<request, counters, tensors>>

\* `if model is None:` (line 52)
load_model_check(t) ==
  /\ pc[t] = "load_check"
  /\ IF model = None
       THEN /\ pc' = [pc EXCEPT ![t] = "load_exists"]
            /\ raced' = (raced \/ \E u \in Procs \ {t} :
                                    pc[u] \in {"load_exists", "load_construct"})
            /\ UNCHANGED <<model, constructed, weights, evalMode,
                           loadsCompleted, checkpoint, imported, response>>
       ELSE /\ load_model_return(t)
            /\ UNCHANGED globals
  /\ UNCHANGED <<request, counters, tensors>>

\* variant: no test of the checkpoint file before the instance is built
load_model_exists_unchecked(t) ==
  /\ pc[t] = "load_exists"
  /\ pc' = [pc EXCEPT ![t] = "load_construct"]
  /\ UNCHANGED <<globals, response>>
  /\ UNCHANGED <<request, counters, tensors>>

\* `if not os.path.exists(checkpoint_path): raise FileNotFoundError` (57-58)
load_model_exists(t) ==
  /\ pc[t] = "load_exists"
  /\ IF checkpoint
       THEN /\ pc' = [pc EXCEPT ![t] = "load_construct"]
            /\ UNCHANGED <<globals, response>>
       ELSE load_model_except(t, CheckpointNotFound)
  /\ UNCHANGED <<request, counters, tensors>>

\* `model = Generator(4, 4, 3)` (line 61): the global is bound to the fresh
\* instance before any weights are read; NameError when the import failed
load_model_construct(t) ==
  /\ pc[t] = "load_construct"
  /\ IF imported
       THEN /\ constructed' = constructed + 1
            /\ model' = constructed + 1
            /\ pc' = [pc EXCEPT ![t] = "load_torch"]
            /\ UNCHANGED <<weights, evalMode, loadsCompleted, raced,
                           checkpoint, imported, response>>
       ELSE load_model_except(t, GeneratorUndefined)
  /\ UNCHANGED <<request, counters, tensors>>

\* `checkpoint = torch.load(checkpoint_path, ...)` (line 62): reads the file,
\* raises when it is gone or is not a readable pickle
load_model_torch(t) ==
  /\ pc[t] = "load_torch"
  /\ \/ /\ checkpoint
        /\ pc' = [pc EXCEPT ![t] = "load_state"]
        /\ UNCHANGED <<globals, response>>
     \/ /\ checkpoint
        /\ load_model_except(t, LoadFailed)
     \/ /\ ~checkpoint
        /\ load_model_except(t, NoSuchFile)
  /\ UNCHANGED <<request, counters, tensors>>

\* `model.load_state_dict(checkpoint)` (line 63): on the instance the global
\* names now; raises on a state dict that does not fit
load_model_state(t) ==
  /\ pc[t] = "load_state"
  /\ \/ /\ weights' = weights \cup {model}
        /\ pc' = [pc EXCEPT ![t] = "load_to"]
        /\ UNCHANGED <<model, constructed, evalMode, loadsCompleted, raced,
                       checkpoint, imported, response>>
     \/ load_model_except(t, LoadFailed)
  /\ UNCHANGED <<request, counters, tensors>>

\* nn.Module.to(device) moves the parameters in place and returns self
module_to(m) == m

\* `model = model.to(DEVICE)` (line 64); raises when the device is out of memory
load_model_to(t) ==
  /\ pc[t] = "load_to"
  /\ \/ /\ model' = module_to(model)
        /\ pc' = [pc EXCEPT ![t] = "load_eval"]
        /\ UNCHANGED <<constructed, weights, evalMode, loadsCompleted, raced,
                       checkpoint, imported, response>>
     \/ load_model_except(t, LoadFailed)
  /\ UNCHANGED <<request, counters, tensors>>

\* `model.eval()` and `return model` (lines 65-68)
load_model_eval(t) ==
  /\ pc[t] = "load_eval"
  /\ evalMode' = evalMode \cup {model}
  /\ loadsCompleted' = loadsCompleted + 1
  /\ load_model_return(t)
  /\ UNCHANGED <<model, constructed, weights, raced, checkpoint, imported>>
  /\ UNCHANGED <<request, counters, tensors>>

load_model(t) ==
  \/ load_model_check(t)
  \/ load_model_exists(t)
  \/ load_model_construct(t)
  \/ load_model_torch(t)
  \/ load_model_state(t)
  \/ load_model_to(t)
  \/ load_model_eval(t)

\* ------------------------------------------------------- generate_tryon

\* a POST /api/tryon arrives with the multipart fields fs
start_tryon(t) ==
  /\ pc[Main] = "serving"
  /\ pc[t] = "idle"
  /\ \E fs \in FileSets :
       /\ kind' = [kind EXCEPT ![t] = "tryon"]
       /\ files' = [files EXCEPT ![t] = fs]
  /\ pc' = [pc EXCEPT ![t] = "tryon_check"]
  /\ UNCHANGED <<globals, response, counters, tensors>>

\* `if model is None: load_model()` (lines 125-126)
tryon_check(t) ==
  /\ pc[t] = "tryon_check"
  /\ IF model = None
       THEN /\ pc' = [pc EXCEPT ![t] = "load_check"]
            /\ loadCalls' = [loadCalls EXCEPT ![t] = @ + 1]
       ELSE /\ pc' = [pc EXCEPT ![t] = "validate"]
            /\ UNCHANGED loadCalls
  /\ UNCHANGED <<globals, request, response, preCalls, inferCalls, usedModel,
                 usedUnloaded, tensors>>

\* `if 'person_image' not in request.files or 'clothing_image' not in
\* request.files: return ..., 400` (lines 129-130)
missing_files(fs) == "person_image" \notin fs \/ "clothing_image" \notin fs

tryon_validate(t) ==
  /\ pc[t] = "validate"
  /\ IF missing_files(files[t])
       THEN Respond(t, 400, "missing_files", "none")
       ELSE /\ pc' = [pc EXCEPT ![t] = "pre_person"]
            /\ UNCHANGED response
  /\ UNCHANGED <<globals, request, counters, tensors>>

\* variant: an undecodable person image is read again instead of raising
tryon_pre_person_retry(t) ==
  /\ pc[t] = "pre_person"
  /\ preCalls' = [preCalls EXCEPT ![t].person = @ + 1]
  /\ \E img \in Uploads :
       IF img.ok
         THEN /\ person_image' = [person_image EXCEPT ![t] = preprocess_image(img)]
              /\ pc' = [pc EXCEPT ![t] = "pre_clothing"]
         ELSE UNCHANGED <<pc, person_image>>
  /\ UNCHANGED <<globals, request, response, loadCalls, inferCalls, usedModel,
                 usedUnloaded, clothing_image, output, result_image>>

\* `person_image = preprocess_image(person_file.read())` (line 139); an
\* undecodable upload raises ValueError (lines 97-98)
tryon_pre_person(t) ==
  /\ pc[t] = "pre_person"
  /\ preCalls' = [preCalls EXCEPT ![t].person = @ + 1]
  /\ \E img \in Uploads :
       IF img.ok
         THEN /\ person_image' = [person_image EXCEPT ![t] = preprocess_image(img)]
              /\ pc' = [pc EXCEPT ![t] = "pre_clothing"]
              /\ UNCHANGED response
         ELSE /\ except_handler(t, PreprocessFailed)
              /\ UNCHANGED person_image
  /\ UNCHANGED <<globals, request, loadCalls, inferCalls, usedModel,
                 usedUnloaded, clothing_image, output, result_image>>

\* `clothing_image = preprocess_image(clothing_file.read())` (line 140)
tryon_pre_clothing(t) ==
  /\ pc[t] = "pre_clothing"
  /\ preCalls' = [preCalls EXCEPT ![t].clothing = @ + 1]
  /\ \E img \in Uploads :
       IF img.ok
         THEN /\ clothing_image' = [clothing_image EXCEPT ![t] = preprocess_image(img)]
              /\ pc' = [pc EXCEPT ![t] = "infer"]
              /\ UNCHANGED response
         ELSE /\ except_handler(t, PreprocessFailed)
              /\ UNCHANGED clothing_image
  /\ UNCHANGED <<globals, request, loadCalls, inferCalls, usedModel,
                 usedUnloaded, person_image, output, result_image>>

\* `output = model(person_image, clothing_image)` (lines 146-149): the global
\* is read here; the network answers or raises
tryon_infer(t) ==
  /\ pc[t] = "infer"
  /\ inferCalls' = [inferCalls EXCEPT ![t] = @ + 1]
  /\ usedModel' = [usedModel EXCEPT ![t] = model]
  /\ usedUnloaded' = [usedUnloaded EXCEPT ![t] = model \notin weights]
  /\ \/ \E c \in OutChannels, v \in OutVals :
          /\ output' = [output EXCEPT ![t] =
                          [shape |-> forward(person_image[t], clothing_image[t], c),
                           val |-> v]]
          /\ pc' = [pc EXCEPT ![t] = "post"]
          /\ UNCHANGED response
     \/ /\ except_handler(t, ModelFailed)
        /\ UNCHANGED output
  /\ UNCHANGED <<globals, request, loadCalls, preCalls, person_image,
                 clothing_image, result_image>>

\* post-processing and the 200 response (lines 154-170): output[0] drops the
\* batch axis, permute(1, 2, 0) gives (h, w, c); fromarray raises TypeError
\* on a channel count it has no mode for
tryon_post(t) ==
  /\ pc[t] = "post"
  /\ LET output_np == permute(Tail(output[t].shape), <<1, 2, 0>>)
     IN  IF fromarray_ok(output_np)
           THEN /\ result_image' = [result_image EXCEPT ![t] =
                      [size |-> fromarray_size(output_np),
                       pixel |-> astype_uint8(clip(denormalize(output[t].val)))]]
                /\ Respond(t, 200, "result", "none")
           ELSE /\ except_handler(t, CannotHandleDataType)
                /\ UNCHANGED result_image
  /\ UNCHANGED <<globals, request, counters, person_image, clothing_image,
                 output>>

generate_tryon(t) ==
  \/ tryon_check(t)
  \/ tryon_validate(t)
  \/ tryon_pre_person(t)
  \/ tryon_pre_clothing(t)
  \/ tryon_infer(t)
  \/ tryon_post(t)

\* ------------------------------------------------- the other two routes

\* GET /health (lines 100-108)
health_check(t) ==
  /\ pc[Main] = "serving"
  /\ pc[t] = "idle"
  /\ kind' = [kind EXCEPT ![t] = "health"]
  /\ Respond(t, 200, IF model_loaded THEN "model_loaded" ELSE "model_not_loaded",
             "none")
  /\ UNCHANGED <<globals, files, counters, tensors>>

\* GET /api/models (lines 181-194): lists the checkpoint directory, 500 when
\* listing raises
list_models(t) ==
  /\ pc[Main] = "serving"
  /\ pc[t] = "idle"
  /\ kind' = [kind EXCEPT ![t] = "models"]
  /\ \/ Respond(t, 200, IF checkpoint THEN "models_gen" ELSE "models", "none")
     \/ Respond(t, 500, "error_only", ListingFailed)
  /\ UNCHANGED <<globals, files, counters, tensors>>

\* the response has been sent; the worker is free again
finish(t) ==
  /\ pc[t] = "done"
  /\ pc' = [pc EXCEPT ![t] = "idle"]
  /\ ResetLocals(t)
  /\ UNCHANGED globals

\* ------------------------------------------------------ the environment

\* gen.pkl is put in place, or removed, by whoever deploys the service
deploy_checkpoint ==
  /\ checkpoint' = ~checkpoint
  /\ UNCHANGED <<model, constructed, weights, evalMode, loadsCompleted, raced,
                 imported, pc, request, response, counters, tensors>>

\* ---------------------------------------------------------- the system

\* after the module body has run: the global is None (line 46); the process
\* was started as a script and is about to preload (lines 196-199), or was
\* imported by a WSGI server and serves at once
Init ==
  /\ model = None
  /\ constructed = 0
  /\ weights = {}
  /\ evalMode = {}
  /\ loadsCompleted = 0
  /\ raced = FALSE
  /\ checkpoint \in BOOLEAN
  /\ imported \in BOOLEAN
  /\ pc \in {[p \in Procs |-> IF p = Main THEN m ELSE "idle"] :
               m \in {"load_check", "serving"}}
  /\ kind = [t \in Workers |-> "none"]
  /\ files = [t \in Workers |-> {}]
  /\ status = [t \in Workers |-> 0]
  /\ body = [t \in Workers |-> "none"]
  /\ err = [t \in Workers |-> "none"]
  /\ responses = [t \in Workers |-> 0]
  /\ loadCalls = [t \in Workers |-> 0]
  /\ preCalls = [t \in Workers |-> [person |-> 0, clothing |-> 0]]
  /\ inferCalls = [t \in Workers |-> 0]
  /\ usedModel = [t \in Workers |-> None]
  /\ usedUnloaded = [t \in Workers |-> FALSE]
  /\ person_image = [t \in Workers |-> NoTensor]
  /\ clothing_image = [t \in Workers |-> NoTensor]
  /\ output = [t \in Workers |-> NoOutput]
  /\ result_image = [t \in Workers |-> NoImage]

\* no other worker is serving a request
Quiet(t) == \A u \in Workers \ {t} : pc[u] = "idle"

\* requests are handled one at a time
Next ==
  \/ load_model(Main)
  \/ \E t \in Workers : Quiet(t) /\ start_tryon(t)
  \/ \E t \in Workers : Quiet(t) /\ health_check(t)
  \/ \E t \in Workers : Quiet(t) /\ list_models(t)
  \/ \E t \in Workers : load_model(t)
  \/ \E t \in Workers : generate_tryon(t)
  \/ \E t \in Workers : finish(t)
  \/ deploy_checkpoint

Spec == Init /\ [][Next]_vars

\* requests are handled by concurrent threads
NextConc ==
  \/ load_model(Main)
  \/ \E t \in Workers : start_tryon(t)
  \/ \E t \in Workers : health_check(t)
  \/ \E t \in Workers : list_models(t)
  \/ \E t \in Workers : load_model(t)
  \/ \E t \in Workers : generate_tryon(t)
  \/ \E t \in Workers : finish(t)
  \/ deploy_checkpoint

SpecConc == Init /\ [][NextConc]_vars

\* ----------------------------------------------------------- properties

\* worker t has answered a POST /api/tryon
Answered(t) == pc[t] = "done" /\ kind[t] = "tryon"

\* C1: every POST /api/tryon that lacks person_image or clothing_image is
\* answered 400 with the missing-files error, whatever the state of the model,
\* and neither preprocessing nor inference has run for it.
C1_MissingFilesAnswered400 ==
  \A t \in Workers :
    (Answered(t) /\ missing_files(files[t])) =>
      /\ status[t] = 400
      /\ body[t] = "missing_files"
      /\ preCalls[t] = [person |-> 0, clothing |-> 0]
      /\ inferCalls[t] = 0

\* C2: with requests handled one at a time, at most one Generator instance is
\* ever constructed, and once the global model is not None no step changes it.
C2_ModelCreatedOnce ==
  /\ [](constructed <= 1)
  /\ [][model # None => model' = model]_vars

\* a request was served from a model that an earlier operation had created
C2_Witness ==
  \E t \in Workers : Answered(t) /\ loadCalls[t] = 0 /\ model # None

\* C3: the model_loaded field GET /health reports is true exactly when some
\* load_model call has run to completion.
C3_HealthReflectsLoad ==
  \A t \in Workers :
    (pc[t] = "done" /\ kind[t] = "health") =>
      ((body[t] = "model_loaded") <=> (loadsCompleted > 0))

\* C4: when gen.pkl does not exist at the test of line 57, load_model raises
\* the checkpoint-not-found error; the startup block swallows it and a POST
\* /api/tryon answers 500 {success: false, error}; the global model is None
\* afterwards, so GET /health reports model_loaded false.
C4_MissingCheckpoint ==
  /\ [](\A t \in Workers :
          (Answered(t) /\ err[t] = CheckpointNotFound) =>
            /\ status[t] = 500
            /\ body[t] = "error"
            /\ model = None
            /\ ~model_loaded)
  /\ [][\A p \in Procs :
          (pc[p] = "load_exists" /\ ~checkpoint /\ pc'[p] # pc[p]) =>
            /\ model' = None
            /\ IF p = Main
                 THEN pc'[p] = "serving"
                 ELSE pc'[p] = "done" /\ err'[p] = CheckpointNotFound]_vars

\* a POST /api/tryon has been answered with the checkpoint-not-found error
C4_Witness ==
  \E t \in Workers : Answered(t) /\ err[t] = CheckpointNotFound /\ ~checkpoint

\* C5: a POST /api/tryon ends with exactly one response, of status 200, 400 or
\* 500; every exception is answered 500 {success: false, error} by the handler
\* itself; 200 {success: true, result_image} only when every step succeeded.
C5_OneJsonResponse ==
  \A t \in Workers :
    /\ (kind[t] = "tryon" /\ pc[t] # "done") => responses[t] = 0
    /\ Answered(t) =>
         /\ responses[t] = 1
         /\ status[t] \in {200, 400, 500}
         /\ body[t] \in {"result", "missing_files", "error"}
         /\ (err[t] # "none") <=> (status[t] = 500)
         /\ (status[t] = 500) <=> (body[t] = "error")
         /\ (status[t] = 400) <=> (body[t] = "missing_files")
         /\ (status[t] = 200) =>
              /\ body[t] = "result"
              /\ ~missing_files(files[t])
              /\ person_image[t] # NoTensor
              /\ clothing_image[t] # NoTensor
              /\ output[t] # NoOutput
              /\ result_image[t] # NoImage
              /\ inferCalls[t] = 1

\* a model exception has been answered 500 by the handler
C5_Witness ==
  \E t \in Workers : Answered(t) /\ err[t] = ModelFailed /\ status[t] = 500

\* C6: with concurrent requests, a second Generator instance is constructed
\* only when two callers were inside the unguarded `model is None` branch of
\* load_model together; the witness is the state the claim says is reachable,
\* two instances constructed and two loads completed in one process.
C6_DoubleLoadByRace == constructed >= 2 => raced

\* the model has been constructed and loaded twice
C6_Witness == constructed >= 2 /\ loadsCompleted >= 2 /\ Cardinality(weights) >= 1

\* C7: within one POST /api/tryon, load_model, preprocess_image of each field
\* and the forward pass are each called at most once, a step runs only when
\* every step before it succeeded, and a failure ends the request.
C7_NothingRetried ==
  \A t \in Workers :
    kind[t] = "tryon" =>
      /\ loadCalls[t] <= 1
      /\ preCalls[t].person <= 1
      /\ preCalls[t].clothing <= 1
      /\ inferCalls[t] <= 1
      /\ (err[t] # "none" \/ status[t] # 0) => pc[t] = "done"
      /\ preCalls[t].person = 1 => ~missing_files(files[t])
      /\ preCalls[t].clothing = 1 => person_image[t] # NoTensor
      /\ inferCalls[t] = 1 => clothing_image[t] # NoTensor
      /\ result_image[t] # NoImage => output[t] # NoOutput
      /\ err[t] \in {CheckpointNotFound, NoSuchFile, GeneratorUndefined, LoadFailed}
           => (preCalls[t] = [person |-> 0, clothing |-> 0] /\ inferCalls[t] = 0)
      /\ err[t] = PreprocessFailed => inferCalls[t] = 0
      /\ err[t] # "none" => result_image[t] = NoImage

\* the clothing image failed to decode: one call each, no inference
C7_Witness ==
  \E t \in Workers :
    /\ Answered(t)
    /\ err[t] = PreprocessFailed
    /\ preCalls[t] = [person |-> 1, clothing |-> 1]

\* C8: preprocess_image returns a tensor of shape (1, 3, 768, 1024) for every
\* decodable upload, and the PNG of a 200 response is 1024 wide and 768 high
\* with its pixels clipped into 0..255 (saturating at both ends).
C8_FixedResolution ==
  \A t \in Workers :
    /\ person_image[t] # NoTensor => person_image[t] = <<1, 3, 768, 1024>>
    /\ clothing_image[t] # NoTensor => clothing_image[t] = <<1, 3, 768, 1024>>
    /\ (Answered(t) /\ status[t] = 200) =>
         /\ result_image[t].size = <<1024, 768>>
         /\ result_image[t].pixel \in 0 .. 255
         /\ output[t].val >= Scale => result_image[t].pixel = 255
         /\ output[t].val <= 0 - Scale => result_image[t].pixel = 0

\* a 200 response whose sample value lay above the pixel range
C8_Witness ==
  \E t \in Workers : Answered(t) /\ status[t] = 200 /\ output[t].val > Scale

\* C9: a failed startup preload leaves the server starting with model None;
\* a POST /api/tryon calls load_model exactly when no load has succeeded
\* before it.
C9_LoadUntilSuccess ==
  /\ [](\A t \in Workers :
          (Answered(t) /\ loadsCompleted = 0) => loadCalls[t] = 1)
  /\ [](\A t \in Workers :
          (kind[t] = "tryon" /\ loadCalls[t] = 0 /\ pc[t] # "tryon_check")
             => loadsCompleted > 0)
  /\ [][(pc[Main] # "serving" /\ pc'[Main] = "serving" /\ loadsCompleted' = 0)
          => model' = None]_vars

\* C10: whenever generate_tryon invokes the global model, that instance has
\* had its checkpoint weights loaded.
C10_InferenceOnLoadedWeights ==
  \A t \in Workers : inferCalls[t] > 0 => ~usedUnloaded[t]

====
